---- MODULE Spec2Model ----
(***************************************************************************)
(* Shopify wishlist app: the two tables of models/wishlist.py, the OAuth   *)
(* handlers of routes/auth.py and the wishlist handlers of                 *)
(* routes/wishlist.py (direct) and routes/proxy.py (App Proxy).            *)
(***************************************************************************)
EXTENDS Integers, FiniteSets, Sequences, TLC

\* Python None, SQL NULL, and every falsy request value ("", missing key).
None == "None"

\* ------------------------------------------------------------ input domains
MyshopifySuffix == ".myshopify.com"
Shops == {"s1.myshopify.com", "s2.myshopify.com"}
\* what a caller may pass as ?shop= to the auth endpoints (bare or full name)
ShopArgs == {"s1", "s1.myshopify.com", "s2.myshopify.com"}
\* the shops whose merchant starts the OAuth flow
InstallArgs == {"s1", "s1.myshopify.com"}
Customers == {"c1", "c2"}
Products == {"P1"}
Variants == {"V1", "V2"}
Tokens == {"t1", "t2"}
\* the token the exchange yields when handlers run one at a time
SeqTokens == {"t1"}
Clients == {1, 2}

\* the largest number of wishlist rows the model lets the table hold
MaxRows == 2

Opt(S) == S \cup {None}

\* the external catalog: the product each variant belongs to
ProductOf(variant) == "P1"

VARIABLES
    wishlist,   \* table Wishlist: set of rows
    settings,   \* table WishlistSettings: set of rows
    session,    \* Flask session of the merchant's browser: session['shop']
    req,        \* per client: the request whose handler is between its query and its commit
    last        \* the response of the handler that returned most recently

vars == <<wishlist, settings, session, req, last>>

\* ------------------------------------------------------------ storage layer

WishlistRow(id, customer, shop, product, variant) ==
    [id |-> id, customer_id |-> customer, shop_domain |-> shop,
     product_id |-> product, variant_id |-> variant]

SettingsRow(id, shop, token) ==
    [id |-> id, shop_domain |-> shop, access_token |-> token]

\* Primary key: a value that no stored row uses. The handlers treat it as an
\* opaque key, so the model names it by the row's content and a copy number
\* (the smallest not in use for that content).
NewId(rows, content) ==
    <<content, CHOOSE k \in 1..(Cardinality(rows) + 1) :
                  /\ \A r \in rows : r.id # <<content, k>>
                  /\ \A j \in 1..(k - 1) : \E r \in rows : r.id = <<content, j>> >>

\* ids no row ever has (a wishlist row's, a settings row's)
NoItemId == <<(<<None, None, None, None>>), 0>>
NoSuchId == <<None, 0>>

\* nullable=False columns of Wishlist
WishlistNotNull == {"customer_id", "shop_domain", "product_id"}

NotNullViolation(row) == \E f \in WishlistNotNull : row[f] = None

\* UniqueConstraint('customer_id','shop_domain','product_id','variant_id'):
\* SQL compares NULL as distinct from everything, so a row with a NULL in a
\* constrained column never conflicts.
UniqueViolation(rows, row) ==
    \E r \in rows :
        /\ r.customer_id = row.customer_id /\ row.customer_id # None
        /\ r.shop_domain = row.shop_domain /\ row.shop_domain # None
        /\ r.product_id = row.product_id /\ row.product_id # None
        /\ r.variant_id = row.variant_id /\ row.variant_id # None

\* db.session.add(item); db.session.commit(): IntegrityError or the new table
InsertWishlist(rows, customer, shop, product, variant) ==
    LET row == WishlistRow(NewId(rows, <<customer, shop, product, variant>>),
                           customer, shop, product, variant) IN
    IF NotNullViolation(row) \/ UniqueViolation(rows, row)
    THEN [ok |-> FALSE, rows |-> rows]
    ELSE [ok |-> TRUE, rows |-> rows \cup {row}]

\* shop_domain declared without unique=True
SettingsUniqueViolation_Undeclared(rows, row) == FALSE

\* shop_domain = Column(unique=True, nullable=False)
SettingsUniqueViolation(rows, row) ==
    \E r \in rows : r.shop_domain = row.shop_domain

InsertSettings(rows, shop, token) ==
    LET row == SettingsRow(NewId(rows, shop), shop, token) IN
    IF token = None \/ shop = None \/ SettingsUniqueViolation(rows, row)
    THEN [ok |-> FALSE, rows |-> rows]
    ELSE [ok |-> TRUE, rows |-> rows \cup {row}]

\* UPDATE ... SET access_token WHERE id = :id (StaleDataError when no row matches)
UpdateSettingsToken(rows, id, token) ==
    IF \E r \in rows : r.id = id
    THEN [ok |-> TRUE,
          rows |-> {IF r.id = id THEN [r EXCEPT !.access_token = token] ELSE r : r \in rows}]
    ELSE [ok |-> FALSE, rows |-> rows]

\* WishlistSettings.query.filter_by(shop_domain=shop): the matching rows
get_shop_settings(setts, shop) ==
    IF shop = None THEN {} ELSE {r \in setts : r.shop_domain = shop}

\* ------------------------------------------------------------ queries

\* ExactMatch with a filter only for the identifiers that are present
ExactMatch_IgnoreAbsent(rows, customer, shop, product, variant) ==
    {r \in rows : /\ r.customer_id = customer
                  /\ r.shop_domain = shop
                  /\ (product # None => r.product_id = product)
                  /\ (variant # None => r.variant_id = variant)}

\* filter_by on all four columns; filter_by(col=None) is "col IS NULL"
ExactMatch(rows, customer, shop, product, variant) ==
    {r \in rows : /\ r.customer_id = customer
                  /\ r.shop_domain = shop
                  /\ r.product_id = product
                  /\ r.variant_id = variant}

\* routes/wishlist.py DELETE: a filter is added only for an identifier that is present
PresentMatch(rows, customer, shop, product, variant) ==
    {r \in rows : /\ r.customer_id = customer
                  /\ r.shop_domain = shop
                  /\ (product # None => r.product_id = product)
                  /\ (variant # None => r.variant_id = variant)}

\* filter_by with the customer alone
Owned_AnyShop(rows, customer, shop) ==
    {r \in rows : r.customer_id = customer}

Owned(rows, customer, shop) ==
    {r \in rows : r.customer_id = customer /\ r.shop_domain = shop}

\* ------------------------------------------------------------ identifier resolver

\* what the external lookup of a variant may yield: requests raised / returned
\* nothing, a payload without product_id, or the variant with its product_id
CatalogOutcomes == {"error", "no_product_id", "ok"}

\* the lookups a request can meet: one is made only for a variant without product
LookupsOf(product, variant) ==
    IF product = None /\ variant # None THEN CatalogOutcomes ELSE {"unused"}

\* what the GET of variants/{id}.json may give get_variant: an exception that is
\* not a RequestException (a body that is not JSON), a failed request, an empty
\* body, JSON without 'variant', a variant without product_id, a variant with one
VariantResponses == {"raise", "request_failed", "empty_body", "no_variant_key",
                     "variant_without_product_id", "variant_with_product_id"}

\* ShopifyAPI.get_variant and the use _resolve_product_id makes of its result:
\* _make_request returns None for a failed request and {} for an empty body,
\* get_variant returns None for both and for a payload without 'variant'
CatalogOutcome(response) ==
    IF response \in {"raise", "request_failed", "empty_body", "no_variant_key"} THEN "error"
    ELSE IF response = "variant_without_product_id" THEN "no_product_id"
    ELSE "ok"

\* the external lookups _resolve_product_id makes
resolve_product_id_calls(setts, shop, variant_id) ==
    IF shop = None \/ variant_id = None THEN <<>>
    ELSE IF get_shop_settings(setts, shop) = {} THEN <<>>
    ELSE IF (CHOOSE r \in get_shop_settings(setts, shop) : TRUE).access_token = None THEN <<>>
    ELSE <<"get_variant">>

\* _resolve_product_id that asks the catalog without looking for the shop's token
resolve_product_id_NoTokenCheck(setts, shop, variant_id, lookup) ==
    IF shop = None \/ variant_id = None THEN None
    ELSE IF lookup = "ok" THEN ProductOf(variant_id)
    ELSE None

\* proxy.py _resolve_product_id: None unless the shop has a token and the lookup
\* returns a product id
resolve_product_id(setts, shop, variant_id, lookup) ==
    IF shop = None \/ variant_id = None THEN None
    ELSE IF get_shop_settings(setts, shop) = {} THEN None
    ELSE IF (CHOOSE r \in get_shop_settings(setts, shop) : TRUE).access_token = None THEN None
    ELSE IF lookup = "ok" THEN ProductOf(variant_id)
    ELSE None

\* ------------------------------------------------------------ routes/wishlist.py
\* A handler is an operator from the tables and the request to what it answers
\* and what it leaves in the tables; the actions below apply it.

Result(status, rows) == [status |-> status, rows |-> rows]

\* _require_shop_and_customer: 400 or 0 (go on)
require_shop_and_customer(customer, shop) ==
    IF customer = None \/ shop = None THEN 400 ELSE 0

\* add_to_wishlist up to `if existing`: 400, 409, or 0 (go on to the insert)
add_to_wishlist_query(rows, customer, shop, product, variant) ==
    IF require_shop_and_customer(customer, shop) # 0 THEN 400
    ELSE IF product = None /\ variant = None THEN 400
    ELSE IF ExactMatch(rows, customer, shop, product, variant) # {} THEN 409
    ELSE 0

\* add_to_wishlist from `item = Wishlist(...)`: 201, or rollback and 500
add_to_wishlist_insert(rows, customer, shop, product, variant) ==
    LET ins == InsertWishlist(rows, customer, shop, product, variant) IN
    Result(IF ins.ok THEN 201 ELSE 500, ins.rows)

\* POST /wishlist
add_to_wishlist(rows, customer, shop, product, variant) ==
    LET q == add_to_wishlist_query(rows, customer, shop, product, variant) IN
    IF q # 0 THEN Result(q, rows)
    ELSE add_to_wishlist_insert(rows, customer, shop, product, variant)

\* DELETE /wishlist (by body): every result the handler may give, q.first()
\* being any of the matching rows
remove_from_wishlist_by_body(rows, customer, shop, product, variant) ==
    LET q == PresentMatch(rows, customer, shop, product, variant) IN
    IF require_shop_and_customer(customer, shop) # 0 THEN {Result(400, rows)}
    ELSE IF product = None /\ variant = None THEN {Result(400, rows)}
    ELSE IF q = {} THEN {Result(404, rows)}
    ELSE {Result(200, rows \ {item}) : item \in q}

\* what add_to_wishlist has done to the store when it returns, in order
add_to_wishlist_effects(rows, customer, shop, product, variant) ==
    IF add_to_wishlist_query(rows, customer, shop, product, variant) = 400 THEN <<>>
    ELSE IF add_to_wishlist_query(rows, customer, shop, product, variant) = 409
    THEN <<"Wishlist.query">>
    ELSE <<"Wishlist.query", "Wishlist.insert">>

\* what remove_from_wishlist_by_body has done to the store when it returns
remove_from_wishlist_by_body_effects(rows, customer, shop, product, variant) ==
    IF require_shop_and_customer(customer, shop) # 0 THEN <<>>
    ELSE IF product = None /\ variant = None THEN <<>>
    ELSE IF PresentMatch(rows, customer, shop, product, variant) = {}
    THEN <<"Wishlist.query">>
    ELSE <<"Wishlist.query", "Wishlist.delete">>

\* remove_from_wishlist with the filter on the id alone
remove_from_wishlist_AnyOwner(rows, item_id, customer, shop) ==
    IF require_shop_and_customer(customer, shop) # 0 THEN Result(400, rows)
    ELSE IF {r \in rows : r.id = item_id} = {} THEN Result(404, rows)
    ELSE Result(200, {r \in rows : r.id # item_id})

\* DELETE /wishlist/<item_id>
remove_from_wishlist(rows, item_id, customer, shop) ==
    LET q == {r \in rows : /\ r.id = item_id
                           /\ r.customer_id = customer
                           /\ r.shop_domain = shop} IN
    IF require_shop_and_customer(customer, shop) # 0 THEN Result(400, rows)
    ELSE IF q = {} THEN Result(404, rows)
    ELSE Result(200, rows \ q)

\* clear_wishlist with the filter on customer_id alone
clear_wishlist_CustomerOnly(rows, customer, shop) ==
    IF require_shop_and_customer(customer, shop) # 0
    THEN [status |-> 400, rows |-> rows, deleted |-> 0]
    ELSE [status |-> 200, rows |-> {r \in rows : r.customer_id # customer},
          deleted |-> Cardinality({r \in rows : r.customer_id = customer})]

\* DELETE /wishlist/clear; deleted: the number in 'Cleared {deleted} items'
clear_wishlist(rows, customer, shop) ==
    IF require_shop_and_customer(customer, shop) # 0
    THEN [status |-> 400, rows |-> rows, deleted |-> 0]
    ELSE [status |-> 200, rows |-> rows \ Owned(rows, customer, shop),
          deleted |-> Cardinality(Owned(rows, customer, shop))]

\* GET /wishlist/count
get_wishlist_count(rows, customer, shop) ==
    IF require_shop_and_customer(customer, shop) # 0
    THEN [status |-> 400, count |-> 0]
    ELSE [status |-> 200, count |-> Cardinality(Owned(rows, customer, shop))]

\* what ShopifyAPI.get_product may do for one row: return the product, return
\* None (request failed, or a payload without 'product'), or raise
EnrichOutcomes == {"ok", "none", "raise"}

\* the outcomes the lookups of a read can have, one per row read: a lookup is
\* made only when the shop has its API client (api) and the row a product_id
OutcomesOf(items, api) ==
    {o \in [1..Len(items) -> EnrichOutcomes \cup {"unused"}] :
        \A i \in 1..Len(items) :
           o[i] = "unused" <=> ~(api /\ items[i].product_id # None)}

\* Query.all(): the matching rows, in the order the store returns them
Orders(rows) ==
    {o \in [1..Cardinality(rows) -> rows] :
        \A i \in 1..Cardinality(rows), j \in 1..Cardinality(rows) : o[i] = o[j] => i = j}

\* the external product payload
ProductData(product_id) == "product(" \o product_id \o ")"

\* Wishlist.to_dict (created_at left out)
to_dict(r) ==
    [id |-> r.id, customer_id |-> r.customer_id, shop_domain |-> r.shop_domain,
     product_id |-> r.product_id, variant_id |-> r.variant_id]

\* the body of the enrichment loop for one row; annotate: the direct handler
\* marks a lookup that raised with 'product_error', the proxy handler passes
enrich_row(r, api, outcome, annotate) ==
    IF api /\ r.product_id # None
    THEN IF outcome = "ok" THEN to_dict(r) @@ ("product" :> ProductData(r.product_id))
         ELSE IF outcome = "raise" /\ annotate
              THEN to_dict(r) @@ ("product_error" :> "lookup raised")
              ELSE to_dict(r)
    ELSE to_dict(r)

\* the loop stops at the first lookup that raises
enrich_StopAtFirstError(items, api, outcomes, annotate) ==
    LET n == IF \E i \in 1..Len(items) : outcomes[i] = "raise"
             THEN (CHOOSE i \in 1..Len(items) :
                      /\ outcomes[i] = "raise"
                      /\ \A j \in 1..(i - 1) : outcomes[j] # "raise") - 1
             ELSE Len(items)
    IN  [i \in 1..n |-> enrich_row(items[i], api, outcomes[i], annotate)]

\* `for it in items: ... enriched.append(row)`
enrich(items, api, outcomes, annotate) ==
    [i \in 1..Len(items) |-> enrich_row(items[i], api, outcomes[i], annotate)]

\* GET /wishlist: items is what .all() returned, outcomes what the lookups did
get_wishlist(setts, customer, shop, items, outcomes) ==
    IF require_shop_and_customer(customer, shop) # 0
    THEN [status |-> 400, wishlist |-> <<>>]
    ELSE [status |-> 200,
          wishlist |-> enrich(items, get_shop_settings(setts, shop) # {}, outcomes, TRUE)]

\* ------------------------------------------------------------ routes/proxy.py

\* validation that lets a request without customer_id through
proxy_validate_CustomerOptional(customer, shop, product, variant) ==
    IF shop = None THEN 400
    ELSE IF product = None /\ variant = None THEN 400
    ELSE 0

\* proxy_wishlist (`missing shop`) and the head of _add_to_wishlist and
\* _remove_from_wishlist: 400 or 0 (go on)
proxy_validate(customer, shop, product, variant) ==
    IF shop = None THEN 400
    ELSE IF customer = None \/ (product = None /\ variant = None) THEN 400
    ELSE 0

\* the product id _add_to_wishlist goes on with: the resolver is asked only when
\* product_id is missing and variant_id is given
proxy_add_product_id(setts, shop, product, variant, lookup) ==
    IF product = None /\ variant # None
    THEN IF resolve_product_id(setts, shop, variant, lookup) # None
         THEN resolve_product_id(setts, shop, variant, lookup)
         ELSE product
    ELSE product

\* _add_to_wishlist up to `if existing`: 400, 409, or 0 (go on to the insert)
proxy_add_to_wishlist_query(rows, setts, customer, shop, product, variant, lookup) ==
    IF proxy_validate(customer, shop, product, variant) # 0 THEN 400
    ELSE IF ExactMatch(rows, customer, shop,
                       proxy_add_product_id(setts, shop, product, variant, lookup),
                       variant) # {} THEN 409
    ELSE 0

\* _add_to_wishlist from `item = Wishlist(...)`, product_id being the resolved one:
\* 200, or rollback and 500
proxy_add_to_wishlist_insert(rows, customer, shop, product_id, variant) ==
    LET ins == InsertWishlist(rows, customer, shop, product_id, variant) IN
    Result(IF ins.ok THEN 200 ELSE 500, ins.rows)

\* POST /proxy/wishlist
proxy_add_to_wishlist(rows, setts, customer, shop, product, variant, lookup) ==
    LET q == proxy_add_to_wishlist_query(rows, setts, customer, shop,
                                         product, variant, lookup) IN
    IF q # 0 THEN Result(q, rows)
    ELSE proxy_add_to_wishlist_insert(
             rows, customer, shop,
             proxy_add_product_id(setts, shop, product, variant, lookup), variant)

\* what proxy_wishlist has done before it dispatches on the method: nothing
\* without a shop, else the lookup of the shop's settings row
proxy_wishlist_effects(shop) ==
    IF shop = None THEN <<>> ELSE <<"WishlistSettings.query">>

\* what POST /proxy/wishlist has done to the store and the resolver when it
\* returns, in order
proxy_add_to_wishlist_effects(rows, setts, customer, shop, product, variant, lookup) ==
    proxy_wishlist_effects(shop) \o
    (IF proxy_validate(customer, shop, product, variant) # 0 THEN <<>>
     ELSE (IF product = None /\ variant # None THEN <<"_resolve_product_id">> ELSE <<>>) \o
          (IF proxy_add_to_wishlist_query(rows, setts, customer, shop,
                                          product, variant, lookup) = 409
           THEN <<"Wishlist.query">>
           ELSE <<"Wishlist.query", "Wishlist.insert">>))

\* what DELETE /proxy/wishlist has done to the store when it returns
proxy_remove_from_wishlist_effects(rows, customer, shop, product, variant) ==
    proxy_wishlist_effects(shop) \o
    (IF proxy_validate(customer, shop, product, variant) # 0 THEN <<>>
     ELSE IF ExactMatch(rows, customer, shop, product, variant) = {}
     THEN <<"Wishlist.query">>
     ELSE <<"Wishlist.query", "Wishlist.delete">>)

\* DELETE /proxy/wishlist: every result the handler may give
proxy_remove_from_wishlist(rows, customer, shop, product, variant) ==
    LET q == ExactMatch(rows, customer, shop, product, variant) IN
    IF proxy_validate(customer, shop, product, variant) # 0 THEN {Result(400, rows)}
    ELSE IF q = {} THEN {Result(404, rows)}
    ELSE {Result(200, rows \ {item}) : item \in q}

\* GET /proxy/wishlist/count
proxy_wishlist_count(rows, customer, shop) ==
    IF shop = None \/ customer = None
    THEN [status |-> 400, count |-> 0]
    ELSE [status |-> 200, count |-> Cardinality(Owned(rows, customer, shop))]

\* the proxy handlers build the API client when the shop's row holds a token
proxy_has_api(setts, shop) ==
    \E r \in get_shop_settings(setts, shop) : r.access_token # None

\* GET /proxy/wishlist
proxy_get_wishlist(setts, customer, shop, items, outcomes) ==
    IF shop = None \/ customer = None
    THEN [status |-> 400, wishlist |-> <<>>]
    ELSE [status |-> 200,
          wishlist |-> enrich(items, proxy_has_api(setts, shop), outcomes, FALSE)]

\* ------------------------------------------------------------ utils/shopify_auth.py

\* SHOPIFY_API_SECRET, the shared secret of the app
ApiSecret == "api_secret"
Codes == {"code1"}

\* hmac.new(secret, urlencode(sorted(params without hmac)), sha256).hexdigest()
HmacHex(secret, code) == "hmac(" \o secret \o ";code=" \o code \o ")"

\* the hmac values a callback may carry: none, Shopify's, a forger's
HmacArgs(code) == {None, HmacHex(ApiSecret, code), HmacHex("guessed_secret", code)}

\* verify_callback that only looks for the parameter, not at its value
verify_callback_AnyHmac(code, hmac) == hmac # None

\* ShopifyAuth.verify_callback
verify_callback(code, hmac) ==
    IF hmac = None THEN FALSE
    ELSE hmac = HmacHex(ApiSecret, code)

\* ------------------------------------------------------------ routes/auth.py

EndsWith(s, suffix) ==
    /\ Len(s) >= Len(suffix)
    /\ SubSeq(s, Len(s) - Len(suffix) + 1, Len(s)) = suffix

\* "Ensure shop domain format"
EnsureShopDomain(shop) ==
    IF EndsWith(shop, MyshopifySuffix) THEN shop ELSE shop \o MyshopifySuffix

\* the names routes/auth.py binds at module level (its imports and definitions)
AuthModuleNames == {"Blueprint", "request", "jsonify", "redirect", "session",
                    "db", "WishlistSettings", "ShopifyAuth", "os"}

AuthResult(status, setts, rows, sess) ==
    [status |-> status, settings |-> setts, rows |-> rows, session |-> sess]

\* GET /auth
auth(sess, shop) ==
    IF shop = None THEN [status |-> 400, session |-> sess]
    ELSE [status |-> 302, session |-> EnsureShopDomain(shop)]

\* auth_callback up to the settings query: 400 or 0 (go on to the write);
\* exchange is what get_access_token returned
auth_callback_check(sess, code, hmac, exchange) ==
    IF sess = None \/ code = None THEN 400
    ELSE IF ~verify_callback(code, hmac) THEN 400
    ELSE IF exchange = None THEN 400
    ELSE 0

\* the calls auth_callback has made when it returns, in the order it made them:
\* the signature check, the token exchange, the write to WishlistSettings
auth_callback_steps(sess, code, hmac, exchange) ==
    IF sess = None \/ code = None THEN <<>>
    ELSE IF ~verify_callback(code, hmac) THEN <<"verify_callback">>
    ELSE IF exchange = None THEN <<"verify_callback", "get_access_token">>
    ELSE <<"verify_callback", "get_access_token", "write">>

FirstId(rows) == IF rows = {} THEN NoSuchId ELSE (CHOOSE r \in rows : TRUE).id

\* "Store or update shop settings" and the commit, given the row the query found
\* (found = NoSuchId: none): 200 and the session without 'shop', or rollback and 500
auth_callback_write(setts, rows, sess, shop, token, found) ==
    LET w == IF found # NoSuchId
             THEN UpdateSettingsToken(setts, found, token)
             ELSE InsertSettings(setts, shop, token)
    IN  IF w.ok THEN AuthResult(200, w.rows, rows, None)
        ELSE AuthResult(500, setts, rows, sess)

\* GET /auth/callback
auth_callback(setts, rows, sess, code, hmac, exchange) ==
    IF auth_callback_check(sess, code, hmac, exchange) # 0
    THEN AuthResult(400, setts, rows, sess)
    ELSE auth_callback_write(setts, rows, sess, sess, exchange,
                             FirstId(get_shop_settings(setts, sess)))

\* GET /auth/verify
verify_installation(setts, shop) ==
    IF shop = None THEN [status |-> 400, installed |-> FALSE]
    ELSE [status |-> 200,
          installed |-> get_shop_settings(setts, EnsureShopDomain(shop)) # {}]

\* uninstall whose except clause answers 500 without db.session.rollback(): the
\* delete of the settings row stays in the session and goes out with its next flush
uninstall_NoRollback(setts, rows, sess, shop) ==
    IF shop = None THEN AuthResult(400, setts, rows, sess)
    ELSE AuthResult(
             IF "Wishlist" \notin AuthModuleNames THEN 500 ELSE 200,
             {r \in setts : r.id # FirstId(get_shop_settings(setts, EnsureShopDomain(shop)))},
             IF "Wishlist" \notin AuthModuleNames THEN rows
             ELSE {r \in rows : r.shop_domain # EnsureShopDomain(shop)},
             sess)

\* POST /auth/uninstall: the settings row is marked for deletion, then the
\* statement on Wishlist is evaluated; a name the module does not bind raises
\* NameError, which the handler's except clause answers with rollback and 500
uninstall(setts, rows, sess, shop) ==
    IF shop = None THEN AuthResult(400, setts, rows, sess)
    ELSE IF "Wishlist" \notin AuthModuleNames THEN AuthResult(500, setts, rows, sess)
    ELSE AuthResult(
             200,
             {r \in setts : r.id # FirstId(get_shop_settings(setts, EnsureShopDomain(shop)))},
             {r \in rows : r.shop_domain # EnsureShopDomain(shop)},
             sess)

\* ------------------------------------------------------------ requests
\* One action per route: the handler applied to the tables.

Resp(op, route, status) == [op |-> op, route |-> route, status |-> status]

Idle == [pc |-> "idle", route |-> None, customer |-> None, shop |-> None,
         product |-> None, variant |-> None, token |-> None, found |-> NoSuchId]

InFlight(pc) == {c \in Clients : req[c].pc = pc}

\* room for one more row, counting the inserts already on their way (the bound
\* is the model's, not the code's)
Room == Cardinality(wishlist) + Cardinality(InFlight("insert")) < MaxRows

\* a result with more rows than the table holds needs room for them
Fits(rows) == Cardinality(rows) > Cardinality(wishlist) => Room

PostWishlist(customer, shop, product, variant) ==
    LET res == add_to_wishlist(wishlist, customer, shop, product, variant) IN
    /\ Fits(res.rows)
    /\ wishlist' = res.rows
    /\ last' = Resp("add", "direct", res.status)
    /\ UNCHANGED <<settings, session, req>>

DeleteWishlist(customer, shop, product, variant) ==
    \E res \in remove_from_wishlist_by_body(wishlist, customer, shop, product, variant) :
       /\ wishlist' = res.rows
       /\ last' = Resp("remove", "direct", res.status)
       /\ UNCHANGED <<settings, session, req>>

DeleteWishlistItem(item_id, customer, shop) ==
    LET res == remove_from_wishlist(wishlist, item_id, customer, shop) IN
    /\ wishlist' = res.rows
    /\ last' = Resp("remove_by_id", "direct", res.status)
    /\ UNCHANGED <<settings, session, req>>

DeleteWishlistClear(customer, shop) ==
    LET res == clear_wishlist(wishlist, customer, shop) IN
    /\ wishlist' = res.rows
    /\ last' = Resp("clear", "direct", res.status)
    /\ UNCHANGED <<settings, session, req>>

GetWishlistCount(customer, shop) ==
    /\ last' = [op |-> "count", route |-> "direct",
                status |-> get_wishlist_count(wishlist, customer, shop).status,
                count |-> get_wishlist_count(wishlist, customer, shop).count]
    /\ UNCHANGED <<wishlist, settings, session, req>>

ProxyPostWishlist(customer, shop, product, variant, lookup) ==
    LET res == proxy_add_to_wishlist(wishlist, settings, customer, shop,
                                     product, variant, lookup) IN
    /\ Fits(res.rows)
    /\ wishlist' = res.rows
    /\ last' = Resp("add", "proxy", res.status)
    /\ UNCHANGED <<settings, session, req>>

ProxyDeleteWishlist(customer, shop, product, variant) ==
    \E res \in proxy_remove_from_wishlist(wishlist, customer, shop, product, variant) :
       /\ wishlist' = res.rows
       /\ last' = Resp("remove", "proxy", res.status)
       /\ UNCHANGED <<settings, session, req>>

ProxyGetWishlistCount(customer, shop) ==
    /\ last' = [op |-> "count", route |-> "proxy",
                status |-> proxy_wishlist_count(wishlist, customer, shop).status,
                count |-> proxy_wishlist_count(wishlist, customer, shop).count]
    /\ UNCHANGED <<wishlist, settings, session, req>>

\* the response of a read, with the request and what the store and the catalog
\* gave the handler
Listed(route, customer, shop, items, outcomes, res) ==
    [op |-> "list", route |-> route, status |-> res.status, customer |-> customer,
     shop |-> shop, items |-> items, outcomes |-> outcomes, wishlist |-> res.wishlist]

GetWishlist(customer, shop) ==
    \E items \in Orders(Owned(wishlist, customer, shop)) :
       \E outcomes \in OutcomesOf(items, get_shop_settings(settings, shop) # {}) :
          /\ last' = Listed("direct", customer, shop, items, outcomes,
                            get_wishlist(settings, customer, shop, items, outcomes))
          /\ UNCHANGED <<wishlist, settings, session, req>>

ProxyGetWishlist(customer, shop) ==
    \E items \in Orders(Owned(wishlist, customer, shop)) :
       \E outcomes \in OutcomesOf(items, proxy_has_api(settings, shop)) :
          /\ last' = Listed("proxy", customer, shop, items, outcomes,
                            proxy_get_wishlist(settings, customer, shop, items, outcomes))
          /\ UNCHANGED <<wishlist, settings, session, req>>

GetAuth(shop) ==
    /\ session' = auth(session, shop).session
    /\ last' = Resp("auth", "auth", auth(session, shop).status)
    /\ UNCHANGED <<wishlist, settings, req>>

GetAuthCallback(code, hmac, exchange) ==
    LET res == auth_callback(settings, wishlist, session, code, hmac, exchange) IN
    /\ settings' = res.settings
    /\ wishlist' = res.rows
    /\ session' = res.session
    /\ last' = Resp("callback", "auth", res.status)
    /\ UNCHANGED req

GetAuthVerify(shop) ==
    /\ last' = [op |-> "verify", route |-> "auth",
                status |-> verify_installation(settings, shop).status,
                installed |-> verify_installation(settings, shop).installed]
    /\ UNCHANGED <<wishlist, settings, session, req>>

PostAuthUninstall(shop) ==
    LET res == uninstall(settings, wishlist, session, shop) IN
    /\ settings' = res.settings
    /\ wishlist' = res.rows
    /\ session' = res.session
    /\ last' = Resp("uninstall", "auth", res.status)
    /\ UNCHANGED req

\* ------------------------------------------------------------ requests in steps
\* Requests are served concurrently (one thread or worker each), so between a
\* handler's query and its commit another handler may run. The handlers that
\* query, decide and then write are given here in their two steps.

Begun(c, pc, route, customer, shop, product, variant, token, found) ==
    [req EXCEPT ![c] = [pc |-> pc, route |-> route, customer |-> customer,
                        shop |-> shop, product |-> product, variant |-> variant,
                        token |-> token, found |-> found]]

\* add_to_wishlist, from its first line to `if existing`
PostWishlistBegin(c, customer, shop, product, variant) ==
    LET q == add_to_wishlist_query(wishlist, customer, shop, product, variant) IN
    /\ req[c].pc = "idle"
    /\ IF q # 0
       THEN last' = Resp("add", "direct", q) /\ UNCHANGED req
       ELSE /\ Room
            /\ req' = Begun(c, "insert", "direct", customer, shop, product, variant,
                            None, NoSuchId)
            /\ UNCHANGED last
    /\ UNCHANGED <<wishlist, settings, session>>

\* _add_to_wishlist, from its first line to `if existing`
ProxyPostWishlistBegin(c, customer, shop, product, variant, lookup) ==
    LET q == proxy_add_to_wishlist_query(wishlist, settings, customer, shop,
                                         product, variant, lookup) IN
    /\ req[c].pc = "idle"
    /\ IF q # 0
       THEN last' = Resp("add", "proxy", q) /\ UNCHANGED req
       ELSE /\ Room
            /\ req' = Begun(c, "insert", "proxy", customer, shop,
                            proxy_add_product_id(settings, shop, product, variant, lookup),
                            variant, None, NoSuchId)
            /\ UNCHANGED last
    /\ UNCHANGED <<wishlist, settings, session>>

\* what the insert of the request in flight gives on the table as it is now
CommitResult(c) ==
    IF req[c].route = "direct"
    THEN add_to_wishlist_insert(wishlist, req[c].customer, req[c].shop,
                                req[c].product, req[c].variant)
    ELSE proxy_add_to_wishlist_insert(wishlist, req[c].customer, req[c].shop,
                                      req[c].product, req[c].variant)

\* either add handler, from `item = Wishlist(...)` to its response
PostWishlistCommit(c) ==
    /\ req[c].pc = "insert"
    /\ wishlist' = CommitResult(c).rows
    /\ last' = Resp("add", req[c].route, CommitResult(c).status)
    /\ req' = [req EXCEPT ![c] = Idle]
    /\ UNCHANGED <<settings, session>>

\* auth_callback, from its first line to the settings query
GetAuthCallbackBegin(c, code, hmac, exchange) ==
    /\ req[c].pc = "idle"
    /\ IF auth_callback_check(session, code, hmac, exchange) # 0
       THEN last' = Resp("callback", "auth", 400) /\ UNCHANGED req
       ELSE /\ req' = Begun(c, "write", "auth", None, session, None, None, exchange,
                            FirstId(get_shop_settings(settings, session)))
            /\ UNCHANGED last
    /\ UNCHANGED <<wishlist, settings, session>>

\* what the write of the callback in flight gives on the tables as they are now
WriteResult(c) ==
    auth_callback_write(settings, wishlist, session, req[c].shop, req[c].token, req[c].found)

\* auth_callback, from `if shop_settings` to its response
GetAuthCallbackCommit(c) ==
    /\ req[c].pc = "write"
    /\ settings' = WriteResult(c).settings
    /\ session' = WriteResult(c).session
    /\ last' = Resp("callback", "auth", WriteResult(c).status)
    /\ req' = [req EXCEPT ![c] = Idle]
    /\ UNCHANGED wishlist

\* ------------------------------------------------------------ specification

Init ==
    /\ wishlist = {}
    /\ settings = {}
    /\ session = None
    /\ req = [c \in Clients |-> Idle]
    /\ last = Resp("none", "none", 0)

\* every handler runs from its first line to its response before the next begins
Next ==
    \/ \E customer \in Opt(Customers), shop \in Opt(Shops),
          product \in Opt(Products), variant \in Opt(Variants) :
          \/ PostWishlist(customer, shop, product, variant)
          \/ DeleteWishlist(customer, shop, product, variant)
          \/ ProxyDeleteWishlist(customer, shop, product, variant)
          \/ \E lookup \in LookupsOf(product, variant) :
                ProxyPostWishlist(customer, shop, product, variant, lookup)
    \/ \E customer \in Opt(Customers), shop \in Opt(Shops) :
          \/ DeleteWishlistClear(customer, shop)
          \/ GetWishlistCount(customer, shop)
          \/ ProxyGetWishlistCount(customer, shop)
          \/ \E item_id \in {r.id : r \in wishlist} \cup {NoItemId} :
                DeleteWishlistItem(item_id, customer, shop)
    \/ \E shop \in Opt(InstallArgs) : GetAuth(shop)
    \/ \E shop \in Opt(ShopArgs) :
          \/ GetAuthVerify(shop)
          \/ PostAuthUninstall(shop)
    \/ \E code \in Opt(Codes), exchange \in Opt(SeqTokens) :
          \E hmac \in HmacArgs(IF code = None THEN "" ELSE code) :
             GetAuthCallback(code, hmac, exchange)

Spec == Init /\ [][Next]_vars

\* the wishlist two racing clients work on
RaceCustomers == {"c1"}
RaceShops == {"s1.myshopify.com"}

\* handlers of concurrent requests interleave at their database statements
RaceNext ==
    \/ \E c \in Clients, customer \in RaceCustomers, shop \in RaceShops,
          product \in Opt(Products), variant \in Opt(Variants) :
          \/ PostWishlistBegin(c, customer, shop, product, variant)
          \/ \E lookup \in LookupsOf(product, variant) :
                ProxyPostWishlistBegin(c, customer, shop, product, variant, lookup)
    \/ \E c \in Clients : PostWishlistCommit(c)
    \/ \E customer \in RaceCustomers, shop \in RaceShops,
          product \in Opt(Products), variant \in Opt(Variants) :
          \/ DeleteWishlist(customer, shop, product, variant)
          \/ ProxyDeleteWishlist(customer, shop, product, variant)
    \/ \E shop \in InstallArgs : GetAuth(shop)
    \/ \E shop \in InstallArgs : PostAuthUninstall(shop)
    \/ \E c \in Clients, code \in Codes, exchange \in Opt(Tokens) :
          \E hmac \in HmacArgs(code) : GetAuthCallbackBegin(c, code, hmac, exchange)
    \/ \E c \in Clients : GetAuthCallbackCommit(c)

RaceSpec == Init /\ [][RaceNext]_vars

\* the reads, on wishlists that adds with a product have filled, for shops
\* installed or not
ReadNext ==
    \/ \E customer \in Customers, shop \in Shops,
          product \in Products, variant \in Opt(Variants) :
          PostWishlist(customer, shop, product, variant)
    \/ \E customer \in Opt(Customers), shop \in Opt(Shops) :
          \/ GetWishlist(customer, shop)
          \/ ProxyGetWishlist(customer, shop)
    \/ \E shop \in InstallArgs : GetAuth(shop)
    \/ \E code \in Codes, exchange \in SeqTokens :
          GetAuthCallback(code, HmacHex(ApiSecret, code), exchange)

ReadSpec == Init /\ [][ReadNext]_vars

\* the wishlist handlers that write, for every customer of every shop, one
\* request at a time, and the installation of a shop
StoreNext ==
    \/ \E customer \in Opt(Customers), shop \in Shops,
          product \in Opt(Products), variant \in Opt(Variants) :
          \/ PostWishlist(customer, shop, product, variant)
          \/ DeleteWishlist(customer, shop, product, variant)
          \/ ProxyDeleteWishlist(customer, shop, product, variant)
          \/ \E lookup \in LookupsOf(product, variant) :
                ProxyPostWishlist(customer, shop, product, variant, lookup)
    \/ \E customer \in Customers, shop \in Shops :
          \/ DeleteWishlistClear(customer, shop)
          \/ \E item_id \in {r.id : r \in wishlist} \cup {NoItemId} :
                DeleteWishlistItem(item_id, customer, shop)
    \/ \E shop \in InstallArgs : GetAuth(shop)
    \/ \E code \in Codes, exchange \in SeqTokens :
          GetAuthCallback(code, HmacHex(ApiSecret, code), exchange)

StoreSpec == Init /\ [][StoreNext]_vars

\* ------------------------------------------------------------ claims

\* the request's four values and a row's, field by field, NULL equal to NULL
SameTuple(r, customer, shop, product, variant) ==
    /\ r.customer_id = customer
    /\ r.shop_domain = shop
    /\ r.product_id = product
    /\ r.variant_id = variant

Stored(rows, customer, shop, product, variant) ==
    \E r \in rows : SameTuple(r, customer, shop, product, variant)

ValidArgs(customer, shop, product, variant) ==
    /\ customer # None /\ shop # None
    /\ (product # None \/ variant # None)

Succeeded == last'.status \in {200, 201}

\* C1: for every valid (shop, customer, product, variant), an add when no earlier
\* add of that tuple has stored its row succeeds and stores one row, and an add
\* of a tuple whose row is stored answers 409 and leaves the table as it was.
C1_AddThenConflict ==
    [][\A customer \in Customers, shop \in Shops,
          product \in Opt(Products), variant \in Opt(Variants) :
          (/\ ValidArgs(customer, shop, product, variant)
           /\ \/ PostWishlist(customer, shop, product, variant)
              \/ \E lookup \in LookupsOf(product, variant) :
                    ProxyPostWishlist(customer, shop, product, variant, lookup))
          => IF \E r \in wishlist :
                   /\ r.customer_id = customer /\ r.shop_domain = shop
                   /\ r.variant_id = variant
                   /\ r.product_id \in (IF product = None THEN {None, ProductOf(variant)}
                                        ELSE {product})
             THEN last'.status = 409 /\ wishlist' = wishlist
             ELSE /\ Succeeded
                  /\ Cardinality(wishlist') = Cardinality(wishlist) + 1
                  /\ wishlist \subseteq wishlist']_vars

\* C2: in every reachable state no two wishlist rows share
\* (customer, shop, product, variant), NULL compared as equal to NULL.
C2_NoDuplicateRows ==
    \A r1 \in wishlist, r2 \in wishlist :
        SameTuple(r1, r2.customer_id, r2.shop_domain, r2.product_id, r2.variant_id)
        => r1 = r2

\* C3: an add whose tuple was stored by a racing add between its duplicate check
\* and its insert is rejected by the storage layer, answers 409 and adds no row.
C3_RaceLoserGets409 ==
    [][\A c \in Clients :
          (/\ PostWishlistCommit(c)
           /\ Stored(wishlist, req[c].customer, req[c].shop, req[c].product, req[c].variant))
          => /\ wishlist' = wishlist
             /\ last'.status = 409]_vars

\* C4: an add of a variant alone, the resolver yielding no product, succeeds and
\* stores a row with product NULL and that variant.
C4_VariantOnlyStoredWithoutProduct ==
    [][\A customer \in Customers, shop \in Shops, variant \in Variants :
          (/\ ~Stored(wishlist, customer, shop, None, variant)
           /\ \/ PostWishlist(customer, shop, None, variant)
              \/ \E lookup \in CatalogOutcomes :
                    /\ resolve_product_id(settings, shop, variant, lookup) = None
                    /\ ProxyPostWishlist(customer, shop, None, variant, lookup))
          => /\ Succeeded
             /\ \E r \in wishlist' \ wishlist :
                   SameTuple(r, customer, shop, None, variant)]_vars

\* C5: an add of a variant alone, for a shop whose token and catalog let the
\* resolver return product P, leaves a row (P, variant) stored and answers with
\* success, or with 409 when that row was stored before.
C5_VariantOnlyResolved ==
    [][\A customer \in Customers, shop \in Shops, variant \in Variants :
          (/\ resolve_product_id(settings, shop, variant, "ok") # None
           /\ \/ PostWishlist(customer, shop, None, variant)
              \/ ProxyPostWishlist(customer, shop, None, variant, "ok"))
          => /\ last'.status \in {200, 201, 409}
             /\ Stored(wishlist', customer, shop, ProductOf(variant), variant)]_vars

\* C6: uninstall answers success, and afterwards neither a settings row nor a
\* wishlist row of that shop is stored.
C6_UninstallDeletesShop ==
    [][\A shop \in ShopArgs :
          PostAuthUninstall(shop)
          => /\ last'.status = 200
             /\ get_shop_settings(settings', EnsureShopDomain(shop)) = {}
             /\ \A r \in wishlist' : r.shop_domain # EnsureShopDomain(shop)]_vars

\* C7: a remove whose (customer, shop, product, variant) equals no stored row
\* answers 404 and deletes nothing.
C7_RemoveUnmatchedIs404 ==
    [][\A customer \in Customers, shop \in Shops,
          product \in Opt(Products), variant \in Opt(Variants) :
          (/\ ValidArgs(customer, shop, product, variant)
           /\ ~Stored(wishlist, customer, shop, product, variant)
           /\ \/ DeleteWishlist(customer, shop, product, variant)
              \/ ProxyDeleteWishlist(customer, shop, product, variant))
          => /\ last'.status = 404
             /\ wishlist' = wishlist]_vars

\* C8: the row a remove deletes equals the request in all four fields, an absent
\* identifier compared as NULL.
C8_RemoveDeletesExactRowOnly ==
    [][\A customer \in Opt(Customers), shop \in Opt(Shops),
          product \in Opt(Products), variant \in Opt(Variants) :
          (\/ DeleteWishlist(customer, shop, product, variant)
           \/ ProxyDeleteWishlist(customer, shop, product, variant))
          => \A r \in wishlist \ wishlist' :
                SameTuple(r, customer, shop, product, variant)]_vars

\* the product id the proxy add goes on with, as the claim words it: the
\* resolver's when the request has none
C9_Resolved(shop, product, variant, lookup) ==
    IF product = None THEN resolve_product_id(settings, shop, variant, lookup)
    ELSE product

\* C9: in every state, for every request, either add handler answers 409 exactly
\* when a stored row equals the request's (resolved) tuple in all four fields,
\* NULL equal to NULL alone; and an add with a product whose tuple no row equals
\* succeeds and stores that tuple, whatever rows of other variants are stored.
C9_ConflictIffExactRow ==
    \A customer \in Opt(Customers), shop \in Opt(Shops),
       product \in Opt(Products), variant \in Opt(Variants) :
       /\ LET res == add_to_wishlist(wishlist, customer, shop, product, variant) IN
          /\ res.status = 409 <=> Stored(wishlist, customer, shop, product, variant)
          /\ (/\ ValidArgs(customer, shop, product, variant) /\ product # None
              /\ ~Stored(wishlist, customer, shop, product, variant))
             => /\ res.status = 201
                /\ wishlist \subseteq res.rows
                /\ Cardinality(res.rows) = Cardinality(wishlist) + 1
                /\ Stored(res.rows, customer, shop, product, variant)
       /\ \A lookup \in LookupsOf(product, variant) :
             LET res == proxy_add_to_wishlist(wishlist, settings, customer, shop,
                                              product, variant, lookup)
                 pid == C9_Resolved(shop, product, variant, lookup)
             IN  /\ res.status = 409 <=> Stored(wishlist, customer, shop, pid, variant)
                 /\ (/\ ValidArgs(customer, shop, product, variant) /\ pid # None
                     /\ ~Stored(wishlist, customer, shop, pid, variant))
                    => /\ res.status = 200
                       /\ wishlist \subseteq res.rows
                       /\ Cardinality(res.rows) = Cardinality(wishlist) + 1
                       /\ Stored(res.rows, customer, shop, pid, variant)

\* a product stored once without variant and once with one, after an add succeeded
C9_Witness ==
    /\ last.op = "add" /\ last.status \in {200, 201}
    /\ \E r1 \in wishlist, r2 \in wishlist :
          /\ SameTuple(r1, r2.customer_id, r2.shop_domain, r2.product_id, r1.variant_id)
          /\ r1.variant_id = None /\ r2.variant_id # None

\* C10: under any interleaving of install callbacks and uninstalls the settings
\* table holds at most one row per shop; a callback about to write that found the
\* shop's row answers 200; and a callback whose write answers 200 leaves the shop
\* one row, holding the new token, and adds no row to a shop that had one.
C10_OneSettingsRowPerShop ==
    /\ \A r1 \in settings, r2 \in settings :
          r1.shop_domain = r2.shop_domain => r1 = r2
    /\ \A c \in InFlight("write") :
          /\ req[c].found # NoSuchId => WriteResult(c).status = 200
          /\ WriteResult(c).status = 200
             => /\ \E r \in WriteResult(c).settings :
                      /\ get_shop_settings(WriteResult(c).settings, req[c].shop) = {r}
                      /\ r.access_token = req[c].token
                /\ get_shop_settings(settings, req[c].shop) # {}
                   => Cardinality(WriteResult(c).settings) = Cardinality(settings)

\* the shop is installed with one token, a callback has just been answered, and a
\* repeated callback that found the row is about to write another token
C10_Witness ==
    /\ last.op = "callback" /\ last.status = 200
    /\ \E c \in Clients :
          /\ req[c].pc = "write" /\ req[c].found # NoSuchId
          /\ \E r \in settings :
                r.id = req[c].found /\ r.access_token # req[c].token

\* C11: in every state, for every callback request: the callback changes the
\* settings table only when its hmac is the one computed with the shared secret
\* and the exchange gave a token, and then it has verified, exchanged and written
\* in that order; a callback whose hmac is missing or wrong, or whose exchange
\* gave no token, answers 400, writes nothing and leaves the table as it was; and
\* a callback in flight before its write holds an exchanged token.
C11_WriteOnlyAfterVerifyAndExchange ==
    /\ \A code \in Opt(Codes), exchange \in Opt(Tokens) :
          \A hmac \in HmacArgs(IF code = None THEN "" ELSE code) :
             LET res == auth_callback(settings, wishlist, session, code, hmac, exchange)
                 steps == auth_callback_steps(session, code, hmac, exchange)
                 signed == code # None /\ hmac = HmacHex(ApiSecret, code)
             IN  /\ (res.settings # settings \/ res.status = 200)
                    => /\ signed /\ exchange # None
                       /\ steps = <<"verify_callback", "get_access_token", "write">>
                 /\ (~signed \/ exchange = None)
                    => /\ res.status = 400
                       /\ res.settings = settings
                       /\ \A i \in 1..Len(steps) : steps[i] # "write"
                 /\ \A i \in 1..Len(steps) :
                       /\ steps[i] = "get_access_token" => (i = 2 /\ signed)
                       /\ steps[i] = "write" => (i = 3 /\ exchange # None)
    /\ \A c \in InFlight("write") : req[c].token # None /\ req[c].shop # None

\* a signed callback whose exchange gave no token, or an unsigned one, was answered
\* 400 while the shop's row, written by an earlier callback, is still as it was
C11_Witness ==
    /\ last.op = "callback" /\ last.status = 400
    /\ session # None
    /\ \E r \in settings : r.shop_domain = session

\* C12: a read that was answered returned, for the rows .all() gave it, one output
\* row per stored row of its (shop, customer), in that order and with the row's
\* own values; an output row carries 'product' exactly when the shop has a token
\* and that row's lookup returned the product, whatever the lookups of the other
\* rows did; and a read with customer and shop never fails.
C12_ReadKeepsEveryRowInOrder ==
    last.op = "list" =>
       /\ (last.customer # None /\ last.shop # None) <=> last.status = 200
       /\ last.status = 200 =>
             /\ Len(last.wishlist) = Cardinality(Owned(wishlist, last.customer, last.shop))
             /\ Len(last.wishlist) = Len(last.items)
             /\ \A i \in 1..Len(last.items) :
                   /\ SameTuple(last.items[i], last.wishlist[i].customer_id,
                                last.wishlist[i].shop_domain, last.wishlist[i].product_id,
                                last.wishlist[i].variant_id)
                   /\ last.wishlist[i].id = last.items[i].id
                   /\ last.wishlist[i].customer_id = last.customer
                   /\ last.wishlist[i].shop_domain = last.shop
                   /\ "product" \in DOMAIN last.wishlist[i]
                      <=> /\ \E r \in settings : r.shop_domain = last.shop
                          /\ last.outcomes[i] = "ok"

\* a read was answered with two rows, the first without 'product' after its
\* lookup raised, the second with one
C12_Witness ==
    /\ last.op = "list" /\ last.status = 200
    /\ Len(last.wishlist) = 2
    /\ last.outcomes[1] = "raise" /\ last.outcomes[2] = "ok"
    /\ "product" \notin DOMAIN last.wishlist[1]
    /\ "product" \in DOMAIN last.wishlist[2]

\* C13: in every state, for every customer and shop, clear answers 200, leaves
\* exactly the rows of other customers and other shops, reports the number of
\* rows it deleted (0 when there were none), and both counts are 0 afterwards.
C13_ClearDeletesAllOfCustomer ==
    \A customer \in Customers, shop \in Shops :
       LET res == clear_wishlist(wishlist, customer, shop)
           mine == {r \in wishlist : r.customer_id = customer /\ r.shop_domain = shop}
       IN  /\ res.status = 200
           /\ res.rows = wishlist \ mine
           /\ res.deleted = Cardinality(mine)
           /\ get_wishlist_count(res.rows, customer, shop) = [status |-> 200, count |-> 0]
           /\ proxy_wishlist_count(res.rows, customer, shop) = [status |-> 200, count |-> 0]

\* a clear was answered 200 and left rows, none of them the clearing customer's:
\* the same customer has rows in another shop, or another customer in this one
C13_Witness ==
    /\ last.op = "clear" /\ last.status = 200
    /\ \E customer \in Customers, shop \in Shops :
          /\ Owned(wishlist, customer, shop) = {}
          /\ \E r \in wishlist : r.customer_id = customer /\ r.shop_domain # shop

\* C14: in every state, for every row id (stored or not) and every customer and
\* shop, remove by id answers 200 and deletes the row of that id, and no other,
\* when that row is stored and is the requesting customer's in the requesting
\* shop; otherwise it answers 404 and deletes nothing.
C14_RemoveByIdChecksOwner ==
    \A item_id \in {r.id : r \in wishlist} \cup {NoItemId},
       customer \in Customers, shop \in Shops :
       LET res == remove_from_wishlist(wishlist, item_id, customer, shop)
           owned == \E r \in wishlist : /\ r.id = item_id
                                        /\ r.customer_id = customer
                                        /\ r.shop_domain = shop
       IN  IF owned
           THEN /\ res.status = 200
                /\ res.rows = {r \in wishlist : r.id # item_id}
                /\ Cardinality(res.rows) = Cardinality(wishlist) - 1
           ELSE /\ res.status = 404
                /\ res.rows = wishlist

\* a remove by id was answered 404 while rows are stored, none of them owned by
\* one of the customers in one of the shops: the id of another owner's row
\* does not delete it
C14_Witness ==
    /\ last.op = "remove_by_id" /\ last.status = 404
    /\ wishlist # {}
    /\ \E r1 \in wishlist, r2 \in wishlist : r1.customer_id # r2.customer_id

\* the accesses of a handler that touch the wishlist table or the resolver
C15_Touches(effects) ==
    {i \in 1..Len(effects) : effects[i] # "WishlistSettings.query"}

\* C15: in every state, an add or remove request without customer, without shop,
\* or with neither product nor variant is answered 400 on both routes, whatever
\* the catalog would say, leaves the wishlist table as it was, and the handler
\* has neither queried or written the wishlist table nor invoked the resolver.
C15_InvalidRequestIs400 ==
    \A customer \in Opt(Customers), shop \in Opt(Shops),
       product \in Opt(Products), variant \in Opt(Variants) :
       ~ValidArgs(customer, shop, product, variant) =>
          /\ add_to_wishlist(wishlist, customer, shop, product, variant)
                = [status |-> 400, rows |-> wishlist]
          /\ add_to_wishlist_effects(wishlist, customer, shop, product, variant) = <<>>
          /\ remove_from_wishlist_by_body(wishlist, customer, shop, product, variant)
                = {[status |-> 400, rows |-> wishlist]}
          /\ remove_from_wishlist_by_body_effects(wishlist, customer, shop,
                                                  product, variant) = <<>>
          /\ \A lookup \in CatalogOutcomes \cup {"unused"} :
                /\ proxy_add_to_wishlist(wishlist, settings, customer, shop,
                                         product, variant, lookup)
                      = [status |-> 400, rows |-> wishlist]
                /\ C15_Touches(proxy_add_to_wishlist_effects(
                       wishlist, settings, customer, shop, product, variant, lookup)) = {}
          /\ proxy_remove_from_wishlist(wishlist, customer, shop, product, variant)
                = {[status |-> 400, rows |-> wishlist]}
          /\ C15_Touches(proxy_remove_from_wishlist_effects(
                 wishlist, customer, shop, product, variant)) = {}

\* an add or remove was answered 400 on a table that holds rows, for an
\* installed shop whose resolver could have been asked
C15_Witness ==
    /\ last.op \in {"add", "remove"} /\ last.status = 400
    /\ wishlist # {}
    /\ settings # {}

\* C16: in every state, under any interleaving, a writing handler that answers
\* with an error leaves both tables as they were when it ran: the adds and
\* removes, remove by id and clear on the wishlist the racing clients work on,
\* the callback and uninstall run as a whole, and the insert of an add and the
\* write of a callback that are in flight.
C16_ErrorLeavesTablesUnchanged ==
    /\ \A customer \in RaceCustomers, shop \in RaceShops,
          product \in Opt(Products), variant \in Opt(Variants) :
          /\ LET res == add_to_wishlist(wishlist, customer, shop, product, variant) IN
             res.status = 500 => res.rows = wishlist
          /\ \A lookup \in LookupsOf(product, variant) :
                LET res == proxy_add_to_wishlist(wishlist, settings, customer, shop,
                                                 product, variant, lookup) IN
                res.status = 500 => res.rows = wishlist
          /\ \A res \in remove_from_wishlist_by_body(wishlist, customer, shop, product, variant)
                      \cup proxy_remove_from_wishlist(wishlist, customer, shop, product, variant) :
                res.status \notin {200} => res.rows = wishlist
          /\ clear_wishlist(wishlist, customer, shop).status # 200
             => clear_wishlist(wishlist, customer, shop).rows = wishlist
          /\ \A item_id \in {r.id : r \in wishlist} \cup {NoItemId} :
                remove_from_wishlist(wishlist, item_id, customer, shop).status # 200
                => remove_from_wishlist(wishlist, item_id, customer, shop).rows = wishlist
    /\ \A shop \in Opt(ShopArgs) :
          LET res == uninstall(settings, wishlist, session, shop) IN
          res.status # 200 => (res.settings = settings /\ res.rows = wishlist)
    /\ \A code \in Codes, exchange \in Opt(Tokens) :
          \A hmac \in HmacArgs(code) :
             LET res == auth_callback(settings, wishlist, session, code, hmac, exchange) IN
             res.status # 200 => (res.settings = settings /\ res.rows = wishlist)
    /\ \A c \in InFlight("insert") :
          CommitResult(c).status = 500 => CommitResult(c).rows = wishlist
    /\ \A c \in InFlight("write") :
          WriteResult(c).status = 500
          => (WriteResult(c).settings = settings /\ WriteResult(c).rows = wishlist)

\* an uninstall was answered 500 while the shop is installed and rows are stored,
\* and the insert of an add in flight is about to fail on a row stored meanwhile
C16_Witness ==
    /\ last.op = "uninstall" /\ last.status = 500
    /\ settings # {} /\ wishlist # {}
    /\ \E c \in InFlight("insert") : CommitResult(c).status = 500

\* C17: in every state, for every shop, variant and response of the catalog, the
\* resolver returns a value (a product id or None, never an exception): None
\* without any external lookup when the shop has no settings row with a token;
\* else, after one lookup, the variant's product id when the response holds one
\* and None for every other response.
C17_ResolverNeverRaises ==
    \A shop \in Opt(Shops), variant \in Opt(Variants), response \in VariantResponses :
       LET out == resolve_product_id(settings, shop, variant, CatalogOutcome(response))
           calls == resolve_product_id_calls(settings, shop, variant)
           registered == \E r \in settings : /\ r.shop_domain = shop
                                             /\ r.access_token # None
       IN  /\ out \in Opt(Products)
           /\ (~registered \/ variant = None) => (out = None /\ calls = <<>>)
           /\ (registered /\ variant # None)
              => /\ calls = <<"get_variant">>
                 /\ out = IF response = "variant_with_product_id"
                          THEN ProductOf(variant) ELSE None

\* a proxy add was answered 200 for a shop whose token lets the resolver return
\* the product of a variant, and a row of that product and variant is stored
C17_Witness ==
    /\ last.op = "add" /\ last.route = "proxy" /\ last.status = 200
    /\ \E r \in wishlist :
          /\ r.variant_id # None
          /\ resolve_product_id(settings, r.shop_domain, r.variant_id, "ok") = r.product_id
          /\ \E s \in Shops : resolve_product_id(settings, s, r.variant_id, "ok") = None

\* C18: in every state, for every valid (customer, shop, product, variant) and
\* either pair of handlers, when the add succeeds every remove with the same
\* arguments answers 200 and leaves the table as it was before the add (the row
\* the add created is the one deleted, and the count is back to its value).
C18_AddThenRemoveIsRoundTrip ==
    \A customer \in Customers, shop \in Shops,
       product \in Opt(Products), variant \in Opt(Variants) :
       ValidArgs(customer, shop, product, variant)
       => /\ LET added == add_to_wishlist(wishlist, customer, shop, product, variant) IN
             added.status = 201
             => \A res \in remove_from_wishlist_by_body(added.rows, customer, shop,
                                                        product, variant) :
                   res.status = 200 /\ res.rows = wishlist
          /\ \A lookup \in LookupsOf(product, variant) :
                LET added == proxy_add_to_wishlist(wishlist, settings, customer, shop,
                                                   product, variant, lookup) IN
                added.status = 200
                => \A res \in proxy_remove_from_wishlist(added.rows, customer, shop,
                                                        product, variant) :
                      res.status = 200 /\ res.rows = wishlist

\* the rows of other shops and of other customers
C19_Foreign(rows, customer, shop) ==
    {r \in rows : r.customer_id # customer \/ r.shop_domain # shop}

\* a successful remove deleted exactly one row and stored none
C19_DeletedOne(res) ==
    res.status = 200 => (res.rows \subseteq wishlist /\ Cardinality(wishlist \ res.rows) = 1)

\* the state part of C19: what every wishlist handler would do in this state
C19_Handlers ==
    \A customer \in Customers, shop \in Shops :
       LET foreign == C19_Foreign(wishlist, customer, shop)
           own == wishlist \ foreign
       IN  /\ \A product \in Opt(Products), variant \in Opt(Variants) :
                /\ C19_Foreign(add_to_wishlist(wishlist, customer, shop,
                                               product, variant).rows, customer, shop) = foreign
                /\ \A lookup \in LookupsOf(product, variant) :
                      C19_Foreign(proxy_add_to_wishlist(wishlist, settings, customer, shop,
                                     product, variant, lookup).rows, customer, shop) = foreign
                /\ \A res \in remove_from_wishlist_by_body(wishlist, customer, shop,
                                                           product, variant)
                              \cup proxy_remove_from_wishlist(wishlist, customer, shop,
                                                              product, variant) :
                      /\ C19_Foreign(res.rows, customer, shop) = foreign
                      /\ C19_DeletedOne(res)
           /\ \A item_id \in {r.id : r \in wishlist} \cup {NoItemId} :
                LET res == remove_from_wishlist(wishlist, item_id, customer, shop) IN
                /\ C19_Foreign(res.rows, customer, shop) = foreign
                /\ C19_DeletedOne(res)
           /\ C19_Foreign(clear_wishlist(wishlist, customer, shop).rows, customer, shop)
                 = foreign
           /\ get_wishlist_count(wishlist, customer, shop).count = Cardinality(own)
           /\ proxy_wishlist_count(wishlist, customer, shop).count = Cardinality(own)
           /\ \A items \in Orders(Owned(wishlist, customer, shop)) :
                /\ \A outcomes \in OutcomesOf(items, get_shop_settings(settings, shop) # {}) :
                      LET res == get_wishlist(settings, customer, shop, items, outcomes) IN
                      \A i \in 1..Len(res.wishlist) :
                         \E r \in own : /\ res.wishlist[i].id = r.id
                                        /\ res.wishlist[i].customer_id = customer
                                        /\ res.wishlist[i].shop_domain = shop
                /\ \A outcomes \in OutcomesOf(items, proxy_has_api(settings, shop)) :
                      LET res == proxy_get_wishlist(settings, customer, shop,
                                                    items, outcomes) IN
                      \A i \in 1..Len(res.wishlist) :
                         \E r \in own : /\ res.wishlist[i].id = r.id
                                        /\ res.wishlist[i].customer_id = customer
                                        /\ res.wishlist[i].shop_domain = shop

\* C19: in every state, add, remove, remove by id and clear for (shop, customer)
\* leave the rows of other shops and other customers as they are, count and
\* list report only rows of that shop and customer, and a remove or remove by
\* id answered 200 deleted exactly one row; and every step that serves a
\* wishlist request leaves the settings table unchanged.
C19_TenantAndCustomerIsolation ==
    /\ []C19_Handlers
    /\ [][last'.op \in {"add", "remove", "remove_by_id", "clear", "count", "list"}
            => settings' = settings]_vars

\* a clear was answered 200 for an installed shop and rows are still stored:
\* they are another customer's or another shop's
C19_Witness ==
    /\ last.op = "clear" /\ last.status = 200
    /\ settings # {}
    /\ wishlist # {}
    /\ \E customer \in Customers, shop \in Shops :
          /\ Owned(wishlist, customer, shop) = {}
          /\ C19_Foreign(wishlist, customer, shop) = wishlist

\* the outcome class of a response: success, or the error status itself
C20_Class(status) == IF status \in {200, 201} THEN 200 ELSE status

\* C20: in every state, for every add or remove request, with the catalog not
\* answering, the direct handler and the proxy handler give responses of the
\* same class and leave the same wishlist rows.
C20_DirectAndProxyAgree ==
    \A customer \in Opt(Customers), shop \in Opt(Shops),
       product \in Opt(Products), variant \in Opt(Variants) :
       /\ \A lookup \in LookupsOf(product, variant) \ {"ok", "no_product_id"} :
             LET direct == add_to_wishlist(wishlist, customer, shop, product, variant)
                 proxy == proxy_add_to_wishlist(wishlist, settings, customer, shop,
                                                product, variant, lookup)
             IN  /\ C20_Class(direct.status) = C20_Class(proxy.status)
                 /\ direct.rows = proxy.rows
       /\ {<<C20_Class(res.status), res.rows>> :
              res \in remove_from_wishlist_by_body(wishlist, customer, shop,
                                                   product, variant)}
          = {<<C20_Class(res.status), res.rows>> :
               res \in proxy_remove_from_wishlist(wishlist, customer, shop,
                                                  product, variant)}

====
